---- MODULE Spec2Model ----
(***************************************************************************)
(* The Passphrase engine of passphrase/passphrase.py: its configuration    *)
(* fields with their validated setters, generate(), generate_password(),   *)
(* words_amount_needed(), password_len_needed() and __str__().             *)
(*                                                                         *)
(* Text is a sequence of ASCII codes.  Entropy is fixed point, in          *)
(* thousandths of a bit (a Python float in the code).  The modules         *)
(* passphrase/secrets.py, passphrase/calc.py, passphrase/settings.py and   *)
(* the wordlist.json resource are imported by passphrase.py; they are      *)
(* modelled from their documented contract.                                *)
(***************************************************************************)
EXTENDS Integers, Sequences, FiniteSets, TLC

VARIABLES
    entropy_bits_req,       \* self._entropy_bits_req (thousandths of a bit)
    randnum_min,            \* self._randnum_min
    randnum_max,            \* self._randnum_max
    amount_w,               \* self._amount_w
    amount_n,               \* self._amount_n
    passwordlen,            \* self._passwordlen
    separator,              \* self._separator
    wordlist,               \* self._wordlist
    wordlist_entropy_bits,  \* self._wordlist_entropy_bits
    external_wordlist,      \* self._external_wordlist
    last_result,            \* self.last_result
    ret,                    \* the last call: its name, argument, exception, return value
    last_returned,          \* history: the list the last successful generation returned
    builtin_held            \* history: the engine still holds the built-in word list

config == <<entropy_bits_req, randnum_min, randnum_max, amount_w, amount_n,
            passwordlen, separator, wordlist, wordlist_entropy_bits,
            external_wordlist>>
hist == <<last_returned, builtin_held>>
vars == <<config, last_result, ret, hist>>

-----------------------------------------------------------------------------
(* Bounds of the exploration *)

\* generate()/generate_password() are explored when they draw at most this many tokens
MaxTokens == 2
\* the draws of the random source that are explored: this many lowest and highest values
EdgeDraws == 2

-----------------------------------------------------------------------------
(* Python values handed to the setters *)

\* a value: its type t, and its number n, its text s or its elements w
IntV(i)   == [t |-> "int",      n |-> i, s |-> <<>>, w |-> <<>>]
BoolV(i)  == [t |-> "bool",     n |-> i, s |-> <<>>, w |-> <<>>]  \* True is 1
FloatV(m) == [t |-> "float",    n |-> m, s |-> <<>>, w |-> <<>>]  \* m thousandths
StrV(x)   == [t |-> "str",      n |-> 0, s |-> x,    w |-> <<>>]
NoneV     == [t |-> "NoneType", n |-> 0, s |-> <<>>, w |-> <<>>]
ListV(w)  == [t |-> "list",     n |-> 0, s |-> <<>>, w |-> w]
TupleV(w) == [t |-> "tuple",    n |-> 0, s |-> <<>>, w |-> w]
\* the arguments of import_words_from_file, as the last call records them
FileArgs(is_diceware) ==
    [t |-> "file", n |-> IF is_diceware THEN 1 ELSE 0, s |-> <<>>, w |-> <<>>]

\* what a call returned: None, an int, a str or a list
NoRet       == [n |-> 0, s |-> <<>>, l |-> <<>>]
IntRet(i)   == [n |-> i, s |-> <<>>, l |-> <<>>]
TextRet(x)  == [n |-> 0, s |-> x,    l |-> <<>>]
ListRet(l)  == [n |-> 0, s |-> <<>>, l |-> l]

\* isinstance(v, int): bool is a subclass of int
IsInt(v) == v.t \in {"int", "bool"}
\* isinstance(v, (int, float))
IsIntOrFloat(v) == v.t \in {"int", "bool", "float"}
IsStr(v) == v.t = "str"
IsListOrTuple(v) == v.t \in {"list", "tuple"}

\* float(entropybits), in thousandths
ToFloat(v) == IF v.t = "float" THEN v.n ELSE 1000 * v.n

\* tokens of a passphrase or password
WordTok(x) == [k |-> "str", s |-> x, n |-> 0]
NumTok(i)  == [k |-> "int", s |-> <<>>, n |-> i]

Max(a, b) == IF a >= b THEN a ELSE b
Min(a, b) == IF a <= b THEN a ELSE b

-----------------------------------------------------------------------------
(* settings.py and wordlist.json *)

MIN_NUM == 0
MAX_NUM == 10000
\* ENTROPY_BITS_MIN = 77 bits
ENTROPY_BITS_MIN == 77000

\* the bundled word list (three words stand for the bundled list)
BuiltinWordlist == <<WordTok(<<97>>), WordTok(<<98>>), WordTok(<<99>>)>>
\* its precomputed entropy_bits: log2(3) = 1.584
BuiltinEntropyBits == 1584

-----------------------------------------------------------------------------
(* secrets.py *)

\* randbelow(n): an integer of [0, n)
RandBelow(n) == (0..(Min(n, EdgeDraws) - 1)) \cup (Max(0, n - EdgeDraws)..(n - 1))
\* randbetween(lo, hi): lo + randbelow(hi - lo + 1)
RandBetween(lo, hi) == {lo + r : r \in RandBelow(hi - lo + 1)}
\* randchoice(seq): seq[randbelow(len(seq))]
RandChoice(seq) == {seq[i + 1] : i \in RandBelow(Len(seq))}

-----------------------------------------------------------------------------
(* calc.py *)

RECURSIVE FloorLog2(_)
FloorLog2(n) == IF n < 2 THEN 0 ELSE 1 + FloorLog2(n \div 2)

RECURSIVE Pow2(_)
Pow2(k) == IF k = 0 THEN 1 ELSE 2 * Pow2(k - 1)

\* the fractional bits of log2 of y / 2^14 in [1, 2), by repeated squaring
RECURSIVE FracBits(_, _, _)
FracBits(y, i, acc) ==
    IF i = 0 THEN acc
    ELSE LET sq == (y * y) \div 16384
         IN  IF sq >= 32768 THEN FracBits(sq \div 2, i - 1, 2 * acc + 1)
                            ELSE FracBits(sq, i - 1, 2 * acc)

\* log2(n) in thousandths, n >= 1
Log2(n) ==
    LET k  == FloorLog2(n)
        y0 == IF k <= 14 THEN n * Pow2(14 - k) ELSE n \div Pow2(k - 14)
    IN  1000 * k + (1000 * FracBits(y0, 10, 0)) \div 1024

\* ceil(a / b) for a >= 0, b > 0
CeilDiv(a, b) == (a + b - 1) \div b

Ok(v)    == [exc |-> "none", val |-> v]
Raise(e) == [exc |-> e, val |-> 0]

\* entropy of an alphabet of `size` distinct symbols
EntropyOfSize(size) == IF size <= 1 THEN 0 ELSE Log2(size)
\* calc.entropy_bits(lst)
CalcEntropyBits(lst) == Ok(EntropyOfSize(Cardinality({lst[i] : i \in DOMAIN lst})))
\* calc.entropy_bits_nrange(minimum, maximum)
CalcEntropyBitsNrange(minimum, maximum) ==
    IF maximum < minimum THEN Raise("InvalidRange")
    ELSE Ok(EntropyOfSize(maximum - minimum + 1))
\* calc.password_len_needed(entropybits)
CalcPasswordLenNeeded(entropybits) ==
    IF entropybits > 0 THEN Max(1, CeilDiv(entropybits, Log2(94))) ELSE 0
\* calc.words_amount_needed(entropybits, entropy_w, entropy_n, amount_n)
CalcWordsAmountNeeded(entropybits, entropy_w, entropy_n, amnt_n) ==
    LET rest == Max(0, entropybits - amnt_n * entropy_n)
    IN  IF rest = 0 THEN Ok(0)
        ELSE IF entropy_w <= 0 THEN Raise("DegenerateAlphabet")
        ELSE Ok(CeilDiv(rest, entropy_w))

-----------------------------------------------------------------------------
(* Word-list files *)

\* a file: missing, or its lines, each line the whitespace-separated fields on it
NoFile      == [exists |-> FALSE, lines |-> <<>>]
FileOf(ls)  == [exists |-> TRUE, lines |-> ls]

RECURSIVE JoinFields(_)
JoinFields(fields) ==
    IF fields = <<>> THEN <<>>
    ELSE IF Len(fields) = 1 THEN fields[1]
    ELSE fields[1] \o <<32>> \o JoinFields(Tail(fields))

\* Passphrase._read_words_from_wordfile(inputfile): word.strip() of every line
ReadWordsFromWordfile(file) ==
    IF ~file.exists THEN Raise("FileNotFoundError")
    ELSE Ok([i \in DOMAIN file.lines |-> WordTok(JoinFields(file.lines[i]))])

\* Passphrase._read_words_from_diceware(inputfile): word.split()[1] of every line
ReadWordsFromDiceware(file) ==
    IF ~file.exists THEN Raise("FileNotFoundError")
    ELSE IF \E i \in DOMAIN file.lines : Len(file.lines[i]) < 2 THEN Raise("IndexError")
    ELSE Ok([i \in DOMAIN file.lines |-> WordTok(file.lines[i][2])])

-----------------------------------------------------------------------------
(* Passphrase: pure parts *)

Called(op, arg, exc, val) == [op |-> op, arg |-> arg, exc |-> exc, val |-> val]

\* Passphrase.entropy_bits(lst): a pair of numbers is a range, anything else a list
EntropyBits(lst) ==
    IF Len(lst) = 2 /\ lst[1].k = "int" /\ lst[2].k = "int"
    THEN CalcEntropyBitsNrange(lst[1].n, lst[2].n)
    ELSE CalcEntropyBits(lst)

\* the entropy per word words_amount_needed() uses
EntropyW ==
    IF external_wordlist = FALSE THEN Ok(wordlist_entropy_bits)
    ELSE EntropyBits(wordlist)

\* Passphrase.words_amount_needed(): its result
WordsAmountNeededResult ==
    LET entropy_n == EntropyBits(<<NumTok(randnum_min), NumTok(randnum_max)>>)
        entropy_w == EntropyW
    IN  IF entropy_n.exc # "none" THEN entropy_n
        ELSE IF entropy_w.exc # "none" THEN entropy_w
        ELSE CalcWordsAmountNeeded(entropy_bits_req, entropy_w.val,
                                   entropy_n.val, amount_n)

\* str(w)
RECURSIVE Digits(_)
Digits(i) == IF i < 10 THEN <<48 + i>> ELSE Digits(i \div 10) \o <<48 + (i % 10)>>
Str(w) == IF w.k = "int" THEN Digits(w.n) ELSE w.s

\* s[:stop:], stop either None or an integer
NoStop      == [none |-> TRUE, i |-> 0]
StopAt(i)   == [none |-> FALSE, i |-> i]
SliceTo(s, stop) ==
    IF stop.none THEN s
    ELSE IF stop.i < 0 THEN SubSeq(s, 1, Max(0, Len(s) + stop.i))
    ELSE SubSeq(s, 1, Min(Len(s), stop.i))

\* a slice that drops one character whatever the separator's length
RmLastSeparatorOneChar(sep) == IF Len(sep) > 0 THEN StopAt(-1) ELSE NoStop

\* rm_last_separator
RmLastSeparator(sep) == IF Len(sep) > 0 THEN StopAt(-Len(sep)) ELSE NoStop

\* "".join('{}{}'.format(w, separator) for w in map(str, result))
RECURSIVE JoinEach(_, _)
JoinEach(result, sep) ==
    IF result = <<>> THEN <<>>
    ELSE Str(Head(result)) \o sep \o JoinEach(Tail(result), sep)

\* Passphrase.__str__(); last_result is a list from construction on, never None
StrOf(result, sep) == SliceTo(JoinEach(result, sep), RmLastSeparator(sep))

\* digits + ascii_letters + punctuation
digits == [i \in 1..10 |-> 47 + i]
ascii_lowercase == [i \in 1..26 |-> 96 + i]
ascii_uppercase == [i \in 1..26 |-> 64 + i]
ascii_letters == ascii_lowercase \o ascii_uppercase
punctuation == [i \in 1..15 |-> 32 + i] \o [i \in 1..7 |-> 57 + i]
               \o [i \in 1..6 |-> 90 + i] \o [i \in 1..4 |-> 122 + i]
characters ==
    LET all == digits \o ascii_letters \o punctuation
    IN  [i \in DOMAIN all |-> WordTok(<<all[i]>>)]

\* a check that no list fails
WordlistEmptyBelowZero(words) == Len(words) < 0

\* the wordlist check at the head of generate()
WordlistEmpty(words) == Len(words) < 1

\* the two loops in the other order
PassphrasesNumbersFirst(words, amnt_w, amnt_n) ==
    {ns \o ws : ws \in [1..amnt_w -> RandChoice(words)],
                ns \in [1..amnt_n -> {NumTok(i) : i \in RandBetween(MIN_NUM, MAX_NUM)}]}

\* the two loops of generate(): amount_w words, then amount_n numbers
Passphrases(words, amnt_w, amnt_n) ==
    {ws \o ns : ws \in [1..amnt_w -> RandChoice(words)],
                ns \in [1..amnt_n -> {NumTok(i) : i \in RandBetween(MIN_NUM, MAX_NUM)}]}

\* a loop that runs once more
PasswordsOneMore(length) ==
    {cs \o <<>> : cs \in [1..(length + 1) -> RandChoice(characters)]}

\* the loop of generate_password(): length characters
Passwords(length) == {cs \o <<>> : cs \in [1..length -> RandChoice(characters)]}

-----------------------------------------------------------------------------
(* Passphrase: construction *)

\* the class-level defaults, then __init__(inputfile, is_diceware), `given` telling
\* that inputfile is not None; a construction whose file cannot be read raises and
\* leaves no engine
Constructed(given, file, is_diceware) ==
    LET read == IF is_diceware THEN ReadWordsFromDiceware(file)
                ELSE ReadWordsFromWordfile(file)
    IN  /\ passwordlen = 12
        /\ amount_n = 0
        /\ amount_w = 6
        /\ last_result = <<>>
        /\ randnum_min = MIN_NUM
        /\ randnum_max = MAX_NUM
        /\ entropy_bits_req = ENTROPY_BITS_MIN
        /\ separator = <<32>>
        /\ IF ~given
           THEN /\ wordlist = BuiltinWordlist
                /\ wordlist_entropy_bits = BuiltinEntropyBits
                /\ external_wordlist = FALSE
                /\ builtin_held = TRUE
           ELSE /\ read.exc = "none"
                /\ wordlist = read.val
                /\ wordlist_entropy_bits = 0
                /\ external_wordlist = TRUE
                /\ builtin_held = FALSE
        /\ ret = Called("__init__", NoneV, "none", NoRet)
        /\ last_returned = <<>>

-----------------------------------------------------------------------------
(* Passphrase: setters *)

SetEntropyBitsReq(v) ==
    /\ IF ~IsIntOrFloat(v)
       THEN /\ ret' = Called("entropy_bits_req", v, "TypeError", NoRet)
            /\ UNCHANGED entropy_bits_req
       ELSE IF v.n < 0
       THEN /\ ret' = Called("entropy_bits_req", v, "ValueError", NoRet)
            /\ UNCHANGED entropy_bits_req
       ELSE /\ entropy_bits_req' = ToFloat(v)
            /\ ret' = Called("entropy_bits_req", v, "none", NoRet)
    /\ UNCHANGED <<randnum_min, randnum_max, amount_w, amount_n, passwordlen,
                   separator, wordlist, wordlist_entropy_bits, external_wordlist,
                   last_result, hist>>

SetRandnumMin(v) ==
    /\ IF ~IsInt(v)
       THEN /\ ret' = Called("randnum_min", v, "TypeError", NoRet)
            /\ UNCHANGED randnum_min
       ELSE IF v.n < 0
       THEN /\ ret' = Called("randnum_min", v, "ValueError", NoRet)
            /\ UNCHANGED randnum_min
       ELSE /\ randnum_min' = v.n
            /\ ret' = Called("randnum_min", v, "none", NoRet)
    /\ UNCHANGED <<entropy_bits_req, randnum_max, amount_w, amount_n, passwordlen,
                   separator, wordlist, wordlist_entropy_bits, external_wordlist,
                   last_result, hist>>

SetRandnumMax(v) ==
    /\ IF ~IsInt(v)
       THEN /\ ret' = Called("randnum_max", v, "TypeError", NoRet)
            /\ UNCHANGED randnum_max
       ELSE IF v.n < 0
       THEN /\ ret' = Called("randnum_max", v, "ValueError", NoRet)
            /\ UNCHANGED randnum_max
       ELSE /\ randnum_max' = v.n
            /\ ret' = Called("randnum_max", v, "none", NoRet)
    /\ UNCHANGED <<entropy_bits_req, randnum_min, amount_w, amount_n, passwordlen,
                   separator, wordlist, wordlist_entropy_bits, external_wordlist,
                   last_result, hist>>

\* a setter that takes a negative amount for zero
SetAmountWClamping(v) ==
    /\ IF ~IsInt(v)
       THEN /\ ret' = Called("amount_w", v, "TypeError", NoRet)
            /\ UNCHANGED amount_w
       ELSE /\ amount_w' = Max(0, v.n)
            /\ ret' = Called("amount_w", v, "none", NoRet)
    /\ UNCHANGED <<entropy_bits_req, randnum_min, randnum_max, amount_n, passwordlen,
                   separator, wordlist, wordlist_entropy_bits, external_wordlist,
                   last_result, hist>>

SetAmountW(v) ==
    /\ IF ~IsInt(v)
       THEN /\ ret' = Called("amount_w", v, "TypeError", NoRet)
            /\ UNCHANGED amount_w
       ELSE IF v.n < 0
       THEN /\ ret' = Called("amount_w", v, "ValueError", NoRet)
            /\ UNCHANGED amount_w
       ELSE /\ amount_w' = v.n
            /\ ret' = Called("amount_w", v, "none", NoRet)
    /\ UNCHANGED <<entropy_bits_req, randnum_min, randnum_max, amount_n, passwordlen,
                   separator, wordlist, wordlist_entropy_bits, external_wordlist,
                   last_result, hist>>

SetAmountN(v) ==
    /\ IF ~IsInt(v)
       THEN /\ ret' = Called("amount_n", v, "TypeError", NoRet)
            /\ UNCHANGED amount_n
       ELSE IF v.n < 0
       THEN /\ ret' = Called("amount_n", v, "ValueError", NoRet)
            /\ UNCHANGED amount_n
       ELSE /\ amount_n' = v.n
            /\ ret' = Called("amount_n", v, "none", NoRet)
    /\ UNCHANGED <<entropy_bits_req, randnum_min, randnum_max, amount_w, passwordlen,
                   separator, wordlist, wordlist_entropy_bits, external_wordlist,
                   last_result, hist>>

SetPasswordlen(v) ==
    /\ IF ~IsInt(v)
       THEN /\ ret' = Called("passwordlen", v, "TypeError", NoRet)
            /\ UNCHANGED passwordlen
       ELSE IF v.n < 0
       THEN /\ ret' = Called("passwordlen", v, "ValueError", NoRet)
            /\ UNCHANGED passwordlen
       ELSE /\ passwordlen' = v.n
            /\ ret' = Called("passwordlen", v, "none", NoRet)
    /\ UNCHANGED <<entropy_bits_req, randnum_min, randnum_max, amount_w, amount_n,
                   separator, wordlist, wordlist_entropy_bits, external_wordlist,
                   last_result, hist>>

SetSeparator(v) ==
    /\ IF ~IsStr(v)
       THEN /\ ret' = Called("separator", v, "TypeError", NoRet)
            /\ UNCHANGED separator
       ELSE /\ separator' = v.s
            /\ ret' = Called("separator", v, "none", NoRet)
    /\ UNCHANGED <<entropy_bits_req, randnum_min, randnum_max, amount_w, amount_n,
                   passwordlen, wordlist, wordlist_entropy_bits, external_wordlist,
                   last_result, hist>>

\* a wordlist setter that forgets to mark the list as external
WordlistSetterKeepingFlag(v) ==
    IF ~IsListOrTuple(v)
    THEN [exc |-> "TypeError", words |-> wordlist, external |-> external_wordlist]
    ELSE [exc |-> "none", words |-> v.w, external |-> external_wordlist]

\* the wordlist setter: the exception, and the fields after it
WordlistSetter(v) ==
    IF ~IsListOrTuple(v)
    THEN [exc |-> "TypeError", words |-> wordlist, external |-> external_wordlist]
    ELSE [exc |-> "none", words |-> v.w, external |-> TRUE]

SetWordlist(v) ==
    LET set == WordlistSetter(v)
    IN  /\ wordlist' = set.words
        /\ external_wordlist' = set.external
        /\ builtin_held' = (builtin_held /\ set.exc # "none")
        /\ ret' = Called("wordlist", v, set.exc, NoRet)
        /\ UNCHANGED <<entropy_bits_req, randnum_min, randnum_max, amount_w, amount_n,
                       passwordlen, separator, wordlist_entropy_bits, last_result,
                       last_returned>>

ImportWordsFromFile(file, is_diceware) ==
    LET read == IF is_diceware = TRUE THEN ReadWordsFromDiceware(file)
                ELSE ReadWordsFromWordfile(file)
        set  == WordlistSetter(ListV(read.val))
        arg  == FileArgs(is_diceware)
    IN  /\ IF read.exc # "none"
           THEN /\ ret' = Called("import_words_from_file", arg, read.exc, NoRet)
                /\ UNCHANGED <<wordlist, external_wordlist, builtin_held>>
           ELSE /\ wordlist' = set.words
                /\ external_wordlist' = set.external
                /\ builtin_held' = (builtin_held /\ set.exc # "none")
                /\ ret' = Called("import_words_from_file", arg, set.exc, NoRet)
        /\ UNCHANGED <<entropy_bits_req, randnum_min, randnum_max, amount_w, amount_n,
                       passwordlen, separator, wordlist_entropy_bits, last_result,
                       last_returned>>

-----------------------------------------------------------------------------
(* Passphrase: operations *)

Generate ==
    IF WordlistEmpty(wordlist)
    THEN /\ ret' = Called("generate", NoneV, "ValueError", NoRet)
         /\ UNCHANGED <<config, last_result, hist>>
    ELSE /\ amount_w + amount_n <= MaxTokens
         /\ \E passphrase \in Passphrases(wordlist, amount_w, amount_n) :
                /\ last_result' = passphrase
                /\ ret' = Called("generate", NoneV, "none", ListRet(passphrase))
                /\ last_returned' = passphrase
         /\ UNCHANGED <<config, builtin_held>>

\* a generate_password() that extends the list the engine holds
GeneratePasswordExtending ==
    /\ passwordlen <= MaxTokens
    /\ \E password \in Passwords(passwordlen) :
           /\ last_result' = last_result \o password
           /\ ret' = Called("generate_password", NoneV, "none", ListRet(password))
           /\ last_returned' = password
    /\ UNCHANGED <<config, builtin_held>>

GeneratePassword ==
    /\ passwordlen <= MaxTokens
    /\ \E password \in Passwords(passwordlen) :
           /\ last_result' = password
           /\ ret' = Called("generate_password", NoneV, "none", ListRet(password))
           /\ last_returned' = password
    /\ UNCHANGED <<config, builtin_held>>

PasswordLenNeeded ==
    /\ ret' = Called("password_len_needed", NoneV, "none",
                     IntRet(CalcPasswordLenNeeded(entropy_bits_req)))
    /\ UNCHANGED <<config, last_result, hist>>

\* a words_amount_needed() that stores the amount it computed
WordsAmountNeededStoring ==
    LET r == WordsAmountNeededResult
    IN  /\ ret' = Called("words_amount_needed", NoneV, r.exc, IntRet(r.val))
        /\ amount_w' = IF r.exc = "none" THEN r.val ELSE amount_w
        /\ UNCHANGED <<entropy_bits_req, randnum_min, randnum_max, amount_n,
                       passwordlen, separator, wordlist, wordlist_entropy_bits,
                       external_wordlist, last_result, hist>>

WordsAmountNeeded ==
    LET r == WordsAmountNeededResult
    IN  /\ ret' = Called("words_amount_needed", NoneV, r.exc, IntRet(r.val))
        /\ UNCHANGED <<config, last_result, hist>>

ToStr ==
    /\ ret' = Called("__str__", NoneV, "none", TextRet(StrOf(last_result, separator)))
    /\ UNCHANGED <<config, last_result, hist>>

-----------------------------------------------------------------------------
(* The callers that are explored *)

PlainFile == FileOf(<< <<(<<97>>)>>, <<(<<100>>)>> >>)
DicewareFile == FileOf(<< <<(<<49, 49>>), (<<97>>)>>, <<(<<49, 50>>), (<<98>>)>> >>)
EmptyFile == FileOf(<<>>)
Files == {NoFile, EmptyFile, PlainFile, DicewareFile}

\* Passphrase(), Passphrase(inputfile), Passphrase(inputfile, True)
Init ==
    \/ Constructed(FALSE, NoFile, FALSE)
    \/ \E file \in Files, is_diceware \in BOOLEAN : Constructed(TRUE, file, is_diceware)
\* Passphrase()
InitDefault == Constructed(FALSE, NoFile, FALSE)

\* arguments of the numeric setters
Ints(S) == {IntV(i) : i \in S}
Typed == {IntV(-1), IntV(0), IntV(1), BoolV(1), FloatV(1500), FloatV(-500),
          StrV(<<49>>), NoneV}
Separators == {StrV(<<>>), StrV(<<45>>), StrV(<<44, 32>>)}
\* arguments of the wordlist setter
Wordlists == {ListV(<<>>), ListV(<<WordTok(<<101>>)>>),
              TupleV(<<WordTok(<<101>>), WordTok(<<97>>)>>),
              ListV(<<WordTok(<<101>>), WordTok(<<101>>)>>),
              ListV(<<NumTok(7), NumTok(3)>>), StrV(<<101>>), NoneV}

\* the numeric range, the amounts and generate()
NextRange ==
    \/ \E v \in Ints({-1, 1, MAX_NUM + 1}) : SetRandnumMin(v)
    \/ \E v \in Ints({0, 2}) : SetRandnumMax(v)
    \/ \E v \in Ints({0, 1}) : SetAmountW(v)
    \/ \E v \in Ints({0, 1, 2, 3}) : SetAmountN(v)
    \/ Generate
    \/ WordsAmountNeeded
SpecRange == InitDefault /\ [][NextRange]_vars

\* the word list, the amounts and generate()
NextGenerate ==
    \/ \E v \in {ListV(<<>>), TupleV(<<WordTok(<<101>>), WordTok(<<97>>)>>),
                  StrV(<<101>>)} : SetWordlist(v)
    \/ \E file \in {NoFile, EmptyFile, DicewareFile}, is_diceware \in BOOLEAN :
           ImportWordsFromFile(file, is_diceware)
    \/ \E v \in Ints({-1, 0, 1, 2}) : SetAmountW(v)
    \/ \E v \in Ints({0, 1, 2}) : SetAmountN(v)
    \/ Generate
SpecGenerate == Init /\ [][NextGenerate]_vars

\* both generators and the setters around them
NextLast ==
    \/ \E v \in Ints({-1, 0, 1, 2, 3}) : SetPasswordlen(v)
    \/ \E v \in Ints({0, 1}) : SetAmountW(v)
    \/ \E v \in {ListV(<<>>), ListV(<<WordTok(<<101>>)>>)} : SetWordlist(v)
    \/ Generate
    \/ GeneratePassword
SpecLast == InitDefault /\ [][NextLast]_vars

\* every setter, with arguments of every type
NextCfg ==
    \/ \E v \in Typed : SetEntropyBitsReq(v)
    \/ \E v \in Typed : SetRandnumMin(v)
    \/ \E v \in Typed : SetRandnumMax(v)
    \/ \E v \in Typed : SetAmountW(v)
    \/ \E v \in Typed : SetAmountN(v)
    \/ \E v \in Typed : SetPasswordlen(v)
    \/ \E v \in {StrV(<<45>>), IntV(1), NoneV} : SetSeparator(v)
SpecCfg == InitDefault /\ [][NextCfg]_vars

\* the generators, the separator and __str__()
NextStr ==
    \/ \E v \in Separators \cup {IntV(0)} : SetSeparator(v)
    \/ \E v \in Ints({0, 1, 2}) : SetAmountW(v)
    \/ \E v \in Ints({0, 1, 2, 3}) : SetAmountN(v)
    \/ \E v \in Ints({1}) : SetPasswordlen(v)
    \/ Generate
    \/ GeneratePassword
    \/ ToStr
SpecStr == InitDefault /\ [][NextStr]_vars

\* the sizing calls and the fields they read
NextNeed ==
    \/ \E v \in Wordlists : SetWordlist(v)
    \/ \E file \in Files, is_diceware \in BOOLEAN : ImportWordsFromFile(file, is_diceware)
    \/ \E v \in {IntV(0), IntV(3), FloatV(1500), IntV(-1)} : SetEntropyBitsReq(v)
    \/ \E v \in Ints({1, 3}) : SetRandnumMin(v)
    \/ \E v \in Ints({0, 2}) : SetRandnumMax(v)
    \/ \E v \in Ints({0, 1}) : SetAmountN(v)
    \/ WordsAmountNeeded
    \/ PasswordLenNeeded
SpecNeed == Init /\ [][NextNeed]_vars

\* every call, with every argument above; the properties are checked under the
\* specifications above, each over the calls its properties are about
Next ==
    \/ NextRange \/ NextGenerate \/ NextLast \/ NextCfg \/ NextStr \/ NextNeed
Spec == Init /\ [][Next]_vars

-----------------------------------------------------------------------------
(* Properties *)

Returned(op) == ret.op = op /\ ret.exc = "none"
Elements(seq) == {seq[i] : i \in DOMAIN seq}
SetterNames == {"entropy_bits_req", "randnum_min", "randnum_max", "amount_w",
                "amount_n", "passwordlen", "separator", "wordlist",
                "import_words_from_file"}

\* C1: every number generate() appends lies in [randnum_min, randnum_max] as
\* configured on the engine, whatever range the setters have configured.
C1_NumbersInConfiguredRange ==
    Returned("generate") =>
        \A i \in (amount_w + 1)..Len(ret.val.l) :
            randnum_min <= ret.val.l[i].n /\ ret.val.l[i].n <= randnum_max

\* C2: when generate() or words_amount_needed() runs, the configured range
\* satisfies 0 <= randnum_min <= randnum_max, after any accepted assignments.
C2_RangeOrdered ==
    ret.op \in {"generate", "words_amount_needed"} =>
        0 <= randnum_min /\ randnum_min <= randnum_max

\* C3: with a non-empty word list generate() returns amount_w + amount_n tokens,
\* the first amount_w of them members of the word list, the rest numbers.
C3_WordsThenNumbers ==
    (ret.op = "generate" /\ Len(wordlist) >= 1) =>
        /\ ret.exc = "none"
        /\ Len(ret.val.l) = amount_w + amount_n
        /\ \A i \in 1..amount_w : ret.val.l[i] \in Elements(wordlist)
        /\ \A i \in (amount_w + 1)..(amount_w + amount_n) : ret.val.l[i].k = "int"
C3_Witness ==
    /\ Returned("generate")
    /\ amount_w >= 1 /\ amount_n >= 1
    /\ Len(ret.val.l) = amount_w + amount_n

\* C4: generate() on an empty word list fails, whatever amount_w and amount_n
\* are, and leaves last_result and every configuration field as they were.
C4_EmptyWordlistFails ==
    [][(ret'.op = "generate" /\ Len(wordlist) = 0) =>
          (ret'.exc = "ValueError" /\ UNCHANGED <<config, last_result>>)]_vars
C4_Witness ==
    /\ ret.op = "generate" /\ ret.exc = "ValueError"
    /\ Len(wordlist) = 0 /\ amount_w = 0 /\ amount_n = 0

\* the arguments a field does not take: a negative number, or a value of
\* another type than the field's (a bool is an int)
C5_Invalid(op, v) ==
    IF op = "separator" THEN v.t # "str"
    ELSE IF op = "entropy_bits_req" THEN v.t \notin {"int", "bool", "float"} \/ v.n < 0
    ELSE v.t \notin {"int", "bool"} \/ v.n < 0
C5_Fields == {"entropy_bits_req", "randnum_min", "randnum_max", "amount_w",
              "amount_n", "passwordlen", "separator"}

C6_Printable == {WordTok(<<c>>) : c \in 33..126}

\* C6: generate_password() returns exactly passwordlen characters, each of the
\* printable alphabet of digits, letters and punctuation, which has 94
\* distinct symbols; with passwordlen = 0 it returns the empty sequence.
C6_PasswordOfAlphabet ==
    ret.op = "generate_password" =>
        /\ ret.exc = "none"
        /\ Len(ret.val.l) = passwordlen
        /\ \A i \in DOMAIN ret.val.l : ret.val.l[i] \in Elements(characters)
        /\ Elements(characters) = C6_Printable
        /\ Len(characters) = 94 /\ Cardinality(Elements(characters)) = 94
        /\ (passwordlen = 0 => ret.val.l = <<>>)
C6_Witness ==
    /\ Returned("generate_password")
    /\ passwordlen = 2 /\ Len(ret.val.l) = 2 /\ ret.val.l[1] # ret.val.l[2]

\* the textual forms of the tokens with the separator between consecutive ones
RECURSIVE C7_Joined(_, _)
C7_Joined(tokens, sep) ==
    IF tokens = <<>> THEN <<>>
    ELSE IF Len(tokens) = 1 THEN Str(tokens[1])
    ELSE Str(tokens[1]) \o sep \o C7_Joined(Tail(tokens), sep)

\* C7: str(engine) is the textual forms of the tokens of last_result joined
\* with the separator between consecutive tokens and none after the last,
\* for every last_result and every separator.
C7_RenderedJoined ==
    ret.op = "__str__" => ret.val.s = C7_Joined(last_result, separator)
C7_Witness ==
    /\ ret.op = "__str__"
    /\ Len(last_result) = 2 /\ last_result[2].k = "int"
    /\ Len(separator) = 2
    /\ Len(ret.val.s) > 2

\* C8: last_result is the list the most recent successful generation call
\* returned (the empty list before any); setters and failed generation calls
\* never change it.
C8_LastResultIsLastReturned ==
    last_result = last_returned
C8_Witness ==
    /\ ret.op = "generate" /\ ret.exc = "ValueError"
    /\ Len(last_result) = 2 /\ last_result[1].s = <<48>>

\* the result of words_amount_needed() when the per-word entropy is the cached
\* value while the built-in list is held and the current list's otherwise
C9_Expected ==
    LET entropy_n == EntropyBits(<<NumTok(randnum_min), NumTok(randnum_max)>>)
        entropy_w == IF builtin_held THEN Ok(BuiltinEntropyBits)
                     ELSE EntropyBits(wordlist)
    IN  IF entropy_n.exc # "none" THEN entropy_n
        ELSE IF entropy_w.exc # "none" THEN entropy_w
        ELSE CalcWordsAmountNeeded(entropy_bits_req, entropy_w.val,
                                   entropy_n.val, amount_n)

\* C9: words_amount_needed() sizes with the cached per-word entropy exactly
\* while the engine holds the built-in word list; after any assignment to
\* wordlist or import from a file it sizes with the current list's entropy.
C9_CachedEntropyOnlyForBuiltin ==
    ret.op = "words_amount_needed" =>
        /\ [exc |-> ret.exc, val |-> ret.val.n] = C9_Expected
        /\ (external_wordlist = FALSE) <=> builtin_held
C9_Witness ==
    /\ Returned("words_amount_needed")
    /\ ~builtin_held /\ Len(wordlist) = 2
    /\ ret.val.n > 0

\* C10: words_amount_needed() and password_len_needed() leave every
\* configuration field and last_result unchanged, whether they return or fail.
C10_SizingCallsChangeNothing ==
    [][ret'.op \in {"words_amount_needed", "password_len_needed"} =>
          UNCHANGED <<config, last_result>>]_vars
C10_Witness ==
    /\ ret.op = "words_amount_needed" /\ ret.exc # "none"
    /\ entropy_bits_req # ENTROPY_BITS_MIN

====
